---- MODULE Spec2Model ----
(***************************************************************************)
(* Model of steam-gc-test.js: a staged diagnostic run (Steam login, GC     *)
(* connection, profile request) raced against three timers and the OS      *)
(* signals, with the testCompleted flag as the completion gate.            *)
(*                                                                         *)
(* Node's event loop runs one callback at a time, so every handler is one  *)
(* atomic action.  Time is a discrete clock of TickMs milliseconds; a      *)
(* timer armed at tick t for d ms is due at tick t + Ticks(d), callbacks   *)
(* due in the same tick run in either order, and the clock does not pass   *)
(* a due timer.  steam-user and globaloffensive are the environment: the   *)
(* variables steam and gc keep the little of their protocol that limits    *)
(* which event can come next.                                              *)
(***************************************************************************)
EXTENDS Integers, FiniteSets, Sequences, TLC

VARIABLES
    pc,                 \* "loaded": module body ran up to line 278; "started": startTest() returned
    now,                \* Date.now(), in ticks since the module was loaded
    steam,              \* steam-user session: "idle", "loggingOn", "loggedOn", "loggingOff", "closed"
    gc,                 \* globaloffensive session: "idle", "connecting", "connected", "disconnected"
    testStartTime,      \* line 68
    gcConnectStartTime, \* line 69 (Null until loggedOn)
    testCompleted,      \* line 70
    testTimeout,        \* line 73: tick at which the 5-minute timer is due, or NoTimer
    gcTimeout,          \* line 258: tick at which the 2-minute timer is due, or NoTimer
    requestTimeout,     \* line 168: tick at which the 30-second timer is due, or NoTimer
    exitTimer,          \* line 239: tick at which the deferred process.exit is due, or NoTimer
    requestStartTime,   \* line 165 (Null until testProfileRequest)
    requestPending,     \* the requestPlayersProfile callback is registered and not yet called
    result,             \* the argument of the completeTest call that passed the guard
    report,             \* the 'TEST COMPLETED' block that was printed (lines 205-211), or NoReport
    reports,            \* how many times the 'TEST COMPLETED' block was printed
    printed,            \* kinds of lines written to the console so far
    exited,             \* process.exit was called
    exitCode,           \* its argument
    exitCause,          \* the handler that called it
    lastEvent,          \* the callback that ran last
    logOnCalls,         \* calls of steamClient.logOn
    gamesPlayedCalls,   \* calls of steamClient.gamesPlayed([730])
    profileRequests,    \* calls of testProfileRequest
    logOffCalls         \* calls of steamClient.logOff

vars == <<pc, now, steam, gc, testStartTime, gcConnectStartTime, testCompleted,
          testTimeout, gcTimeout, requestTimeout, exitTimer, requestStartTime,
          requestPending, result, report, reports, printed, exited, exitCode,
          exitCause, lastEvent, logOnCalls, gamesPlayedCalls, profileRequests,
          logOffCalls>>

\* The variables completeTest may write.
gateVars == <<testCompleted, testTimeout, exitTimer, result, report, reports,
              printed, steam, logOffCalls>>
\* The variables process.exit writes.
exitVars == <<exited, exitCode, exitCause>>
\* The stage bookkeeping written by the loggedOn and connectedToGC handlers.
stageVars == <<gc, gcConnectStartTime, requestStartTime, requestPending,
               requestTimeout, gamesPlayedCalls, profileRequests>>

----------------------------------------------------------------------------
\* Durations of the source, in milliseconds.
TEST_TIMEOUT_MS == 300000
GC_TIMEOUT_MS == 120000
REQUEST_TIMEOUT_MS == 30000
EXIT_DELAY_MS == 1000

\* Granularity of the model's clock, in milliseconds.
TickMs == 10000

\* A duration in ticks, rounded up: a timer never fires early.
Ticks(ms) == (ms + TickMs - 1) \div TickMs

\* The clock stops here; every run has exited by then.
MaxNow == Ticks(TEST_TIMEOUT_MS) + Ticks(EXIT_DELAY_MS) + 1

Null == -1
NoTimer == -1
NoResult == "NONE"
NoReport == [result |-> NoResult, login |-> FALSE, gc |-> FALSE, profile |-> FALSE]

\* SteamUser.EResult values the error handler tells apart, and one it does not.
EResults == {"InvalidPassword", "TwoFactorCodeMismatch",
             "AccountLoginDeniedNeedTwoFactor", "RateLimitExceeded", "Fail"}

\* What the GC hands to the requestPlayersProfile callback.
Profiles == {"profile", "null"}

\* setTimeout(cb, ms) called now.
SetTimeout(ms) == now + Ticks(ms)

\* A timer's callback may run: it is armed and its delay has elapsed.
Due(timer) == timer # NoTimer /\ now >= timer

----------------------------------------------------------------------------
Init ==
    /\ pc = "loaded"
    /\ now = 0
    /\ steam = "idle"
    /\ gc = "idle"
    /\ testStartTime = 0
    /\ gcConnectStartTime = Null
    /\ testCompleted = FALSE
    /\ testTimeout = Ticks(TEST_TIMEOUT_MS)
    /\ gcTimeout = Ticks(GC_TIMEOUT_MS)
    /\ requestTimeout = NoTimer
    /\ exitTimer = NoTimer
    /\ requestStartTime = Null
    /\ requestPending = FALSE
    /\ result = NoResult
    /\ report = NoReport
    /\ reports = 0
    /\ printed = {}
    /\ exited = FALSE
    /\ exitCode = Null
    /\ exitCause = "none"
    /\ lastEvent = "load"
    /\ logOnCalls = 0
    /\ gamesPlayedCalls = 0
    /\ profileRequests = 0
    /\ logOffCalls = 0

\* process.exit(code) called by handler `cause`.
ProcessExit(code, cause) ==
    /\ exited' = TRUE
    /\ exitCode' = code
    /\ exitCause' = cause

\* ExitCodeOf with NO_DATA taken for a success.
ExitCodeOf_NoDataPasses(r) == IF r \in {"SUCCESS", "NO_DATA"} THEN 0 ELSE 1

\* process.exit(result === 'SUCCESS' ? 0 : 1)
ExitCodeOf(r) == IF r = "SUCCESS" THEN 0 ELSE 1

\* The three status lines of the report (lines 209-211).
ReportOf(r) ==
    [result |-> r,
     login |-> TRUE,
     gc |-> (r # "TIMEOUT"),
     profile |-> (r = "SUCCESS")]

\* steamClient.logOff(): a logged-on session starts logging off.
LogOff(s) == IF s = "loggedOn" THEN "loggingOff" ELSE s

\* completeTest without its first line, the testCompleted guard.
CompleteTest_NoGuard(r, out) ==
    /\ testCompleted' = TRUE
    /\ testTimeout' = NoTimer
    /\ result' = r
    /\ report' = ReportOf(r)
    /\ reports' = reports + 1
    /\ printed' = out \cup {"TEST COMPLETED"}
    /\ steam' = LogOff(steam)
    /\ logOffCalls' = logOffCalls + 1
    /\ exitTimer' = SetTimeout(EXIT_DELAY_MS)

\* completeTest without its last statement, the deferred process.exit.
CompleteTest_NoExitTimer(r, out) ==
    IF testCompleted
    THEN /\ printed' = out
         /\ UNCHANGED <<testCompleted, testTimeout, exitTimer, result, report,
                        reports, steam, logOffCalls>>
    ELSE /\ testCompleted' = TRUE
         /\ testTimeout' = NoTimer
         /\ result' = r
         /\ report' = ReportOf(r)
         /\ reports' = reports + 1
         /\ printed' = out \cup {"TEST COMPLETED"}
         /\ steam' = LogOff(steam)
         /\ logOffCalls' = logOffCalls + 1
         /\ UNCHANGED exitTimer

\* completeTest(r), called by a handler that has printed `out` so far.
CompleteTest(r, out) ==
    IF testCompleted
    THEN /\ printed' = out
         /\ UNCHANGED <<testCompleted, testTimeout, exitTimer, result, report,
                        reports, steam, logOffCalls>>
    ELSE /\ testCompleted' = TRUE
         /\ testTimeout' = NoTimer
         /\ result' = r
         /\ report' = ReportOf(r)
         /\ reports' = reports + 1
         /\ printed' = out \cup {"TEST COMPLETED"}
         /\ steam' = LogOff(steam)
         /\ logOffCalls' = logOffCalls + 1
         /\ exitTimer' = SetTimeout(EXIT_DELAY_MS)

----------------------------------------------------------------------------
\* The process is running its event loop.
Running == pc = "started" /\ ~exited

\* startTest(): generateAuthCode(), which exits the process when the shared
\* secret is unusable, then steamClient.logOn().
StartTest ==
    /\ pc = "loaded" /\ ~exited
    /\ lastEvent' = "startTest"
    /\ \E authCodeOk \in BOOLEAN :
         IF authCodeOk
         THEN /\ pc' = "started"
              /\ printed' = printed \cup {"Generated 2FA code"}
              /\ steam' = "loggingOn"
              /\ logOnCalls' = logOnCalls + 1
              /\ UNCHANGED exitVars
         ELSE /\ printed' = printed \cup {"Failed to generate 2FA code"}
              /\ ProcessExit(1, "generateAuthCode")
              /\ UNCHANGED <<pc, steam, logOnCalls>>
    /\ UNCHANGED <<now, testStartTime, testCompleted, testTimeout, gcTimeout,
                   exitTimer, result, report, reports, logOffCalls>>
    /\ UNCHANGED stageVars

\* The diagnosis chain without its final else: an unlisted EResult prints nothing.
Diagnosis_NoElse(eresult) ==
    CASE eresult = "InvalidPassword" -> "Diagnosis: Invalid credentials"
      [] eresult = "TwoFactorCodeMismatch" -> "Diagnosis: 2FA code mismatch"
      [] eresult = "AccountLoginDeniedNeedTwoFactor" -> "Diagnosis: 2FA required"
      [] eresult = "RateLimitExceeded" -> "Diagnosis: Login rate limited"
      [] OTHER -> "Steam Error"

\* The diagnosis line of the 'error' handler (lines 103-113).
Diagnosis(eresult) ==
    CASE eresult = "InvalidPassword" -> "Diagnosis: Invalid credentials"
      [] eresult = "TwoFactorCodeMismatch" -> "Diagnosis: 2FA code mismatch"
      [] eresult = "AccountLoginDeniedNeedTwoFactor" -> "Diagnosis: 2FA required"
      [] eresult = "RateLimitExceeded" -> "Diagnosis: Login rate limited"
      [] OTHER -> "Diagnosis: Unknown error"

\* The error handler without its last line, process.exit(1).
OnSteamError_NoExit(eresult) ==
    /\ Running
    /\ steam \in {"loggingOn", "loggedOn", "loggingOff"}
    /\ lastEvent' = "error"
    /\ printed' = printed \cup {"Steam Error", Diagnosis(eresult)}
    /\ UNCHANGED <<pc, now, steam, testStartTime, testCompleted, testTimeout,
                   gcTimeout, exitTimer, result, report, reports, logOnCalls,
                   logOffCalls>>
    /\ UNCHANGED stageVars
    /\ UNCHANGED exitVars

\* steamClient.on('error'): the session failed for good.
OnSteamError(eresult) ==
    /\ Running
    /\ steam \in {"loggingOn", "loggedOn", "loggingOff"}
    /\ lastEvent' = "error"
    /\ steam' = "closed"
    /\ printed' = printed \cup {"Steam Error", Diagnosis(eresult)}
    /\ ProcessExit(1, "error")
    /\ UNCHANGED <<pc, now, testStartTime, testCompleted, testTimeout, gcTimeout,
                   exitTimer, result, report, reports, logOnCalls, logOffCalls>>
    /\ UNCHANGED stageVars

\* The loggedOn handler sending the profile request itself, before the GC
\* connection exists.
OnLoggedOn_RequestsProfile ==
    /\ Running
    /\ steam = "loggingOn"
    /\ lastEvent' = "loggedOn"
    /\ steam' = "loggedOn"
    /\ printed' = printed \cup {"Steam Login Successful"}
    /\ gcConnectStartTime' = now
    /\ gamesPlayedCalls' = gamesPlayedCalls + 1
    /\ gc' = "connecting"
    /\ requestStartTime' = now
    /\ requestTimeout' = SetTimeout(REQUEST_TIMEOUT_MS)
    /\ requestPending' = TRUE
    /\ profileRequests' = profileRequests + 1
    /\ UNCHANGED <<pc, now, testStartTime, testCompleted, testTimeout, gcTimeout,
                   exitTimer, result, report, reports, logOnCalls, logOffCalls>>
    /\ UNCHANGED exitVars

\* steamClient.on('loggedOn'): stamps gcConnectStartTime and launches CS2.
OnLoggedOn ==
    /\ Running
    /\ steam = "loggingOn"
    /\ lastEvent' = "loggedOn"
    /\ steam' = "loggedOn"
    /\ printed' = printed \cup {"Steam Login Successful"}
    /\ gcConnectStartTime' = now
    /\ gamesPlayedCalls' = gamesPlayedCalls + 1
    /\ gc' = "connecting"
    /\ UNCHANGED <<pc, now, testStartTime, testCompleted, testTimeout, gcTimeout,
                   requestTimeout, exitTimer, requestStartTime, requestPending,
                   result, report, reports, logOnCalls, profileRequests,
                   logOffCalls>>
    /\ UNCHANGED exitVars

\* steamClient.on('disconnected'): fatal only while the test is running.
OnDisconnected ==
    /\ Running
    /\ steam \in {"loggedOn", "loggingOff"}
    /\ lastEvent' = "disconnected"
    /\ steam' = "closed"
    /\ IF ~testCompleted
       THEN /\ printed' = printed \cup {"Steam Disconnected", "Unexpected disconnection"}
            /\ ProcessExit(1, "disconnected")
       ELSE /\ printed' = printed \cup {"Steam Disconnected"}
            /\ UNCHANGED exitVars
    /\ UNCHANGED <<pc, now, testStartTime, testCompleted, testTimeout, gcTimeout,
                   exitTimer, result, report, reports, logOnCalls, logOffCalls>>
    /\ UNCHANGED stageVars

\* testProfileRequest(): arms the 30-second timer and sends the request.
TestProfileRequest ==
    /\ requestStartTime' = now
    /\ requestTimeout' = SetTimeout(REQUEST_TIMEOUT_MS)
    /\ requestPending' = TRUE
    /\ profileRequests' = profileRequests + 1

\* csgo.on('connectedToGC'): the GC welcomed the client launched by gamesPlayed.
OnConnectedToGC ==
    /\ Running
    /\ gc = "connecting"
    /\ steam \in {"loggedOn", "loggingOff"}
    /\ lastEvent' = "connectedToGC"
    /\ gc' = "connected"
    /\ printed' = printed \cup {"GC Connection Successful"}
    /\ TestProfileRequest
    /\ UNCHANGED <<pc, now, steam, testStartTime, gcConnectStartTime, testCompleted,
                   testTimeout, gcTimeout, exitTimer, result, report, reports,
                   logOnCalls, gamesPlayedCalls, logOffCalls>>
    /\ UNCHANGED exitVars

\* The disconnectedFromGC handler without its testCompleted guard.
OnDisconnectedFromGC_NoGuard ==
    /\ Running
    /\ gc = "connected"
    /\ lastEvent' = "disconnectedFromGC"
    /\ gc' = "disconnected"
    /\ printed' = printed \cup {"GC Disconnected", "may indicate a soft ban"}
    /\ ProcessExit(1, "disconnectedFromGC")
    /\ UNCHANGED <<pc, now, steam, testStartTime, gcConnectStartTime, testCompleted,
                   testTimeout, gcTimeout, requestTimeout, exitTimer,
                   requestStartTime, requestPending, result, report, reports,
                   logOnCalls, gamesPlayedCalls, profileRequests, logOffCalls>>

\* csgo.on('disconnectedFromGC'): fatal only while the test is running.
OnDisconnectedFromGC ==
    /\ Running
    /\ gc = "connected"
    /\ lastEvent' = "disconnectedFromGC"
    /\ gc' = "disconnected"
    /\ IF ~testCompleted
       THEN /\ printed' = printed \cup {"GC Disconnected", "may indicate a soft ban"}
            /\ ProcessExit(1, "disconnectedFromGC")
       ELSE /\ printed' = printed \cup {"GC Disconnected"}
            /\ UNCHANGED exitVars
    /\ UNCHANGED <<pc, now, steam, testStartTime, gcConnectStartTime, testCompleted,
                   testTimeout, gcTimeout, requestTimeout, exitTimer,
                   requestStartTime, requestPending, result, report, reports,
                   logOnCalls, gamesPlayedCalls, profileRequests, logOffCalls>>

\* The requestTimeout callback of testProfileRequest.
OnRequestTimeout ==
    /\ Running
    /\ Due(requestTimeout)
    /\ lastEvent' = "requestTimeout"
    /\ requestTimeout' = NoTimer
    /\ CompleteTest("TIMEOUT", printed \cup {"Profile Request Timeout"})
    /\ UNCHANGED <<pc, now, gc, testStartTime, gcConnectStartTime, gcTimeout,
                   requestStartTime, requestPending, logOnCalls, gamesPlayedCalls,
                   profileRequests>>
    /\ UNCHANGED exitVars

\* The requestPlayersProfile callback: the GC answered the request.
OnProfile(profile) ==
    /\ Running
    /\ requestPending
    /\ gc = "connected"
    /\ lastEvent' = "profile"
    /\ requestPending' = FALSE
    /\ requestTimeout' = NoTimer
    /\ IF profile # "null"
       THEN CompleteTest("SUCCESS", printed \cup {"Profile Request Successful"})
       ELSE CompleteTest("NO_DATA", printed \cup {"Profile Request Failed"})
    /\ UNCHANGED <<pc, now, gc, testStartTime, gcConnectStartTime, gcTimeout,
                   requestStartTime, logOnCalls, gamesPlayedCalls, profileRequests>>
    /\ UNCHANGED exitVars

\* The testTimeout callback: the 5-minute limit of the whole test.
OnTestTimeout ==
    /\ Running
    /\ Due(testTimeout)
    /\ lastEvent' = "testTimeout"
    /\ testTimeout' = NoTimer
    /\ IF ~testCompleted
       THEN /\ printed' = printed \cup {"TEST TIMEOUT AFTER 5 MINUTES"}
            /\ ProcessExit(1, "testTimeout")
       ELSE UNCHANGED <<printed, exited, exitCode, exitCause>>
    /\ UNCHANGED <<pc, now, steam, testStartTime, testCompleted, gcTimeout,
                   exitTimer, result, report, reports, logOnCalls, logOffCalls>>
    /\ UNCHANGED stageVars

\* The 2-minute timer's callback without the testCompleted half of its guard.
OnGcTimeout_NoGuard ==
    /\ Running
    /\ Due(gcTimeout)
    /\ lastEvent' = "gcTimeout"
    /\ gcTimeout' = NoTimer
    /\ IF gcConnectStartTime # Null
       THEN CompleteTest("GC_TIMEOUT", printed \cup {"GC Connection Timeout"})
       ELSE UNCHANGED gateVars
    /\ UNCHANGED <<pc, now, testStartTime, logOnCalls>>
    /\ UNCHANGED stageVars
    /\ UNCHANGED exitVars

\* The callback of the 2-minute timer armed when the module is loaded.
OnGcTimeout ==
    /\ Running
    /\ Due(gcTimeout)
    /\ lastEvent' = "gcTimeout"
    /\ gcTimeout' = NoTimer
    /\ IF ~testCompleted /\ gcConnectStartTime # Null
       THEN CompleteTest("GC_TIMEOUT", printed \cup {"GC Connection Timeout"})
       ELSE UNCHANGED gateVars
    /\ UNCHANGED <<pc, now, testStartTime, logOnCalls>>
    /\ UNCHANGED stageVars
    /\ UNCHANGED exitVars

\* The callback of the timer armed by completeTest.
OnExitTimer ==
    /\ Running
    /\ Due(exitTimer)
    /\ lastEvent' = "exitTimer"
    /\ exitTimer' = NoTimer
    /\ ProcessExit(ExitCodeOf(result), "completeTest")
    /\ UNCHANGED <<pc, now, steam, testStartTime, testCompleted, testTimeout,
                   gcTimeout, result, report, reports, printed, logOnCalls,
                   logOffCalls>>
    /\ UNCHANGED stageVars

\* The SIGINT handler that only logs, without the completeTest call.
OnSIGINT_LogOnly ==
    /\ Running
    /\ lastEvent' = "SIGINT"
    /\ printed' = printed \cup {"Test interrupted by user"}
    /\ UNCHANGED <<pc, now, testStartTime, gcTimeout, logOnCalls, testCompleted,
                   testTimeout, exitTimer, result, report, reports, steam,
                   logOffCalls>>
    /\ UNCHANGED stageVars
    /\ UNCHANGED exitVars

\* process.on('SIGINT')
OnSIGINT ==
    /\ Running
    /\ lastEvent' = "SIGINT"
    /\ CompleteTest("INTERRUPTED", printed \cup {"Test interrupted by user"})
    /\ UNCHANGED <<pc, now, testStartTime, gcTimeout, logOnCalls>>
    /\ UNCHANGED stageVars
    /\ UNCHANGED exitVars

\* process.on('SIGTERM')
OnSIGTERM ==
    /\ Running
    /\ lastEvent' = "SIGTERM"
    /\ CompleteTest("TERMINATED", printed \cup {"Test terminated"})
    /\ UNCHANGED <<pc, now, testStartTime, gcTimeout, logOnCalls>>
    /\ UNCHANGED stageVars
    /\ UNCHANGED exitVars

\* Some armed timer is due.
TimerDue ==
    Due(testTimeout) \/ Due(gcTimeout) \/ Due(requestTimeout) \/ Due(exitTimer)

\* Time passes while the event loop is idle and no timer is due.
Tick ==
    /\ Running
    /\ ~TimerDue
    /\ now < MaxNow
    /\ now' = now + 1
    /\ lastEvent' = "tick"
    /\ UNCHANGED <<pc, testStartTime, logOnCalls, gcTimeout>>
    /\ UNCHANGED gateVars
    /\ UNCHANGED stageVars
    /\ UNCHANGED exitVars

Next ==
    \/ StartTest
    \/ \E eresult \in EResults : OnSteamError(eresult)
    \/ OnLoggedOn
    \/ OnDisconnected
    \/ OnConnectedToGC
    \/ OnDisconnectedFromGC
    \/ OnRequestTimeout
    \/ \E profile \in Profiles : OnProfile(profile)
    \/ OnTestTimeout
    \/ OnGcTimeout
    \/ OnExitTimer
    \/ OnSIGINT
    \/ OnSIGTERM
    \/ Tick

Spec == Init /\ [][Next]_vars

\* Node runs the callback of a due timer, and its clock advances.
FairSpec ==
    /\ Spec
    /\ WF_vars(Tick)
    /\ WF_vars(OnTestTimeout)
    /\ WF_vars(OnGcTimeout)
    /\ WF_vars(OnRequestTimeout)
    /\ WF_vars(OnExitTimer)

TypeOK ==
    /\ pc \in {"loaded", "started"}
    /\ now \in 0..MaxNow
    /\ steam \in {"idle", "loggingOn", "loggedOn", "loggingOff", "closed"}
    /\ gc \in {"idle", "connecting", "connected", "disconnected"}
    /\ testCompleted \in BOOLEAN
    /\ exited \in BOOLEAN
    /\ exitCode \in {Null, 0, 1}
    /\ reports \in Nat

----------------------------------------------------------------------------
\* The callbacks that call completeTest.
FinalizingTriggers == {"profile", "requestTimeout", "gcTimeout", "SIGINT", "SIGTERM"}

\* The handlers that call process.exit themselves, without completeTest.
DirectExits == {"error", "disconnected", "disconnectedFromGC", "testTimeout"}

\* C1: exactly-once finalization.  The 'TEST COMPLETED' report is printed at
\* most once, it is printed exactly when testCompleted is set, and once
\* testCompleted is set no step (so no later completeTest call of any
\* trigger) changes the flag, the accepted result, the report, the number
\* of logOff calls or re-arms the exit timer.
C1_ExactlyOnce ==
    /\ [](reports <= 1 /\ (testCompleted <=> reports = 1))
    /\ [][testCompleted =>
            /\ testCompleted'
            /\ result' = result
            /\ report' = report
            /\ reports' = reports
            /\ logOffCalls' = logOffCalls
            /\ exitTimer' \in {exitTimer, NoTimer}]_vars

\* C1 witness: a second finalizing trigger (a signal) ran after the profile
\* callback had finalized the run.
C1_Witness ==
    /\ testCompleted
    /\ result = "SUCCESS"
    /\ lastEvent \in {"SIGINT", "SIGTERM"}
    /\ reports = 1

\* C2 as stated: every exit of a started test was preceded by a successful
\* completeTest and exactly one printed report.
C2_Original ==
    (exited /\ pc = "started") => (testCompleted /\ reports = 1)

\* C2 amended: an exit through the timer armed by completeTest was preceded
\* by a successful finalization and exactly one report; every other exit of
\* a started test is a direct process.exit(1) of the error, disconnected,
\* disconnectedFromGC or testTimeout handler, and the last three only exit
\* while testCompleted is false, with no report printed.
C2_Amended ==
    (exited /\ pc = "started") =>
        /\ reports <= 1
        /\ exitCause = "completeTest" =>
              testCompleted /\ reports = 1 /\ result # NoResult
        /\ exitCause # "completeTest" =>
              /\ exitCause \in DirectExits
              /\ exitCode = 1
              /\ exitCause # "error" => (~testCompleted /\ reports = 0)

\* C2 witness: the process exited from the Steam error handler with the run
\* not finalized and no report printed.
C2_Witness ==
    /\ exited
    /\ exitCause = "error"
    /\ ~testCompleted
    /\ reports = 0

\* C3 as stated: once the run is finalized with result R, the process exits
\* with 0 if R = SUCCESS and with 1 otherwise, whatever arrives later.
C3_Original ==
    (exited /\ testCompleted) => exitCode = ExitCodeOf(result)

\* C4 as stated: from the first finalization until the process exits, none
\* of the global, GC-connection and profile-request timers is armed.
C4_Original ==
    (testCompleted /\ ~exited) =>
        /\ testTimeout = NoTimer
        /\ gcTimeout = NoTimer
        /\ requestTimeout = NoTimer

\* C5: exit-code mapping.  The process exits with 0 or 1; with 0 only
\* through the exit armed by completeTest, when the accepted result is
\* SUCCESS, which only the callback of a non-empty profile passes; with any
\* other accepted result, or none, it exits with 1.
C5_ExitCode ==
    exited =>
        /\ exitCode \in {0, 1}
        /\ exitCode = 0 =>
              /\ result = "SUCCESS"
              /\ exitCause = "completeTest"
              /\ "Profile Request Successful" \in printed
        /\ result # "SUCCESS" => exitCode = 1

\* C5 witness: a run that exited with code 0.
C5_Witness ==
    exited /\ exitCode = 0 /\ result = "SUCCESS"

\* The result completeTest is given by each signal handler.
SignalResult(event) == IF event = "SIGINT" THEN "INTERRUPTED" ELSE "TERMINATED"

\* C6: operator abort at any point.  A SIGINT or SIGTERM handled while the run
\* is not finalized, in whatever stage, finalizes it as INTERRUPTED or
\* TERMINATED and arms the exit; one handled after finalization keeps the
\* earlier result and report; and a run finalized as interrupted eventually
\* exits with code 1.
C6_OperatorAbort ==
    /\ [][(lastEvent' \in {"SIGINT", "SIGTERM"} /\ ~testCompleted) =>
            /\ testCompleted'
            /\ result' = SignalResult(lastEvent')
            /\ exitTimer' # NoTimer]_vars
    /\ [][(lastEvent' \in {"SIGINT", "SIGTERM"} /\ testCompleted) =>
            /\ result' = result
            /\ report' = report
            /\ exitTimer' = exitTimer]_vars
    /\ (result \in {"INTERRUPTED", "TERMINATED"}) ~> (exited /\ exitCode = 1)

\* C6 witness: a run interrupted while the GC connection was pending has
\* exited with code 1 through the exit armed by completeTest.
C6_Witness ==
    /\ exited
    /\ exitCode = 1
    /\ exitCause = "completeTest"
    /\ result = "INTERRUPTED"
    /\ gc = "connecting"

\* The Steam 'error' event came and loggedOn had not.
ErrorBeforeLogin ==
    "Steam Error" \in printed /\ "Steam Login Successful" \notin printed

\* C7: bad credentials.  When the Steam 'error' event arrives before
\* loggedOn, the process has exited with code 1, gamesPlayed was never
\* issued and testProfileRequest never called, and nothing happens after.
C7_BadCredentials ==
    /\ [](ErrorBeforeLogin =>
            /\ exited
            /\ exitCode = 1
            /\ gamesPlayedCalls = 0
            /\ profileRequests = 0
            /\ gc = "idle"
            /\ requestTimeout = NoTimer)
    /\ [][ErrorBeforeLogin => UNCHANGED vars]_vars

\* C7 witness: the process exited from the error handler during login, on an
\* invalid password.
C7_Witness ==
    /\ ErrorBeforeLogin
    /\ "Diagnosis: Invalid credentials" \in printed
    /\ exited
    /\ exitCause = "error"

\* Console lines of an interrupt, a Steam error or a disconnect.
AbortLines == {"Test interrupted by user", "Test terminated", "Steam Error",
               "Steam Disconnected", "GC Disconnected"}

\* Console lines of the profile callback.
ProfileLines == {"Profile Request Successful", "Profile Request Failed"}

\* C8 as stated: a run in which login and GC connection succeeded, no profile
\* callback arrived and no interrupt, error or disconnect occurred ends with
\* the profile-request timeout verdict, TIMEOUT, and exit code 1.
C8_Original ==
    (/\ exited
     /\ "GC Connection Successful" \in printed
     /\ printed \cap ProfileLines = {}
     /\ printed \cap AbortLines = {})
    => (/\ result = "TIMEOUT"
        /\ "Profile Request Timeout" \in printed
        /\ exitCode = 1)

\* C9 as stated: a run finalized by the callback of a non-empty profile, with
\* no timer having expired (so loggedOn, connectedToGC and the profile came
\* before every deadline, and no interrupt, error or disconnect came before
\* them), exits with code 0.
C9_Original ==
    (/\ exited
     /\ result = "SUCCESS"
     /\ gcTimeout # NoTimer
     /\ "Profile Request Timeout" \notin printed
     /\ "TEST TIMEOUT AFTER 5 MINUTES" \notin printed)
    => exitCode = 0

\* What an operator can observe of the run: the console, the report and the exit.
Observables ==
    <<printed, reports, report, result, testCompleted, exited, exitCode,
      exitCause, exitTimer, logOffCalls>>

\* C10: idempotent late timers.  When the GC-connection timer fires after
\* connectedToGC was received, or the profile-request timer after the
\* profile callback was received, and the run is finalized, nothing
\* observable changes: no console line, no report, no exit or exit code.
C10_IdempotentLateTimers ==
    [][(/\ testCompleted
        /\ \/ /\ lastEvent' = "gcTimeout"
              /\ "GC Connection Successful" \in printed
           \/ /\ lastEvent' = "requestTimeout"
              /\ printed \cap ProfileLines # {})
       => UNCHANGED Observables]_vars

\* C10 witness: the GC-connection timer fired after the GC connection had
\* succeeded and the run had been finalized with SUCCESS, before the exit.
C10_Witness ==
    /\ lastEvent = "gcTimeout"
    /\ gcTimeout = NoTimer
    /\ "GC Connection Successful" \in printed
    /\ result = "SUCCESS"
    /\ ~exited

\* C11 as stated: the step in which the GC-connection timer finalizes the
\* run (as GC_TIMEOUT) is taken only while connectedToGC has not been
\* received.
C11_Original ==
    [][(lastEvent' = "gcTimeout" /\ ~testCompleted /\ testCompleted') =>
          "GC Connection Successful" \notin printed]_vars

\* C12 as stated: the GC-connection timer finalizes the run only once the
\* full 120 s have elapsed since gcConnectStartTime, and the profile-request
\* timer only once 30 s have elapsed since requestStartTime.
C12_Original ==
    [][(~testCompleted /\ testCompleted') =>
          /\ lastEvent' = "gcTimeout" =>
                now - gcConnectStartTime >= Ticks(GC_TIMEOUT_MS)
          /\ lastEvent' = "requestTimeout" =>
                now - requestStartTime >= Ticks(REQUEST_TIMEOUT_MS)]_vars

\* C13 as stated: while the run is not finalized and waits for the GC
\* connection, the GC-connection timer is armed; while it waits for the
\* profile response, the profile-request timer is armed.
C13_Original ==
    (~testCompleted /\ ~exited) =>
        /\ gc = "connecting" => gcTimeout # NoTimer
        /\ (gc = "connected" /\ requestPending) => requestTimeout # NoTimer

\* C14 as stated: once testCompleted is set, no step modifies
\* gcConnectStartTime, issues gamesPlayed, calls testProfileRequest or arms
\* a new profile-request timer.
C14_Original ==
    [][testCompleted =>
          /\ gcConnectStartTime' = gcConnectStartTime
          /\ gamesPlayedCalls' = gamesPlayedCalls
          /\ profileRequests' = profileRequests
          /\ requestTimeout' \in {requestTimeout, NoTimer}]_vars

\* C15: stage sequencing without retry.  logOn, gamesPlayed and
\* testProfileRequest are each called at most once; gamesPlayed only once
\* loggedOn was received and testProfileRequest only once connectedToGC
\* was; and the stage-start timestamps that are set are non-decreasing and
\* not in the future, so every reported duration is >= 0.
C15_StageSequencing ==
    /\ logOnCalls <= 1
    /\ gamesPlayedCalls <= 1
    /\ profileRequests <= 1
    /\ (logOnCalls = 1) <=> (pc = "started")
    /\ IF gamesPlayedCalls = 0
       THEN gc = "idle" /\ gcConnectStartTime = Null
       ELSE /\ logOnCalls = 1
            /\ "Steam Login Successful" \in printed
            /\ testStartTime <= gcConnectStartTime
            /\ gcConnectStartTime <= now
    /\ IF profileRequests = 0
       THEN requestStartTime = Null /\ ~requestPending /\ requestTimeout = NoTimer
       ELSE /\ gamesPlayedCalls = 1
            /\ "GC Connection Successful" \in printed
            /\ gcConnectStartTime <= requestStartTime
            /\ requestStartTime <= now
    /\ testStartTime <= now

\* C15 witness: all three stages were started, each strictly later than the
\* one before.
C15_Witness ==
    /\ profileRequests = 1
    /\ testStartTime < gcConnectStartTime
    /\ gcConnectStartTime < requestStartTime
    /\ requestStartTime < now

\* C16: guaranteed termination.  While the started process has not exited,
\* the global timer or the exit timer of completeTest is armed, and (due
\* timers firing) the process eventually exits.
C16_Termination ==
    /\ []((pc = "started" /\ ~exited) =>
            \/ (~testCompleted /\ testTimeout # NoTimer /\ testTimeout <= MaxNow)
            \/ (testCompleted /\ exitTimer # NoTimer /\ exitTimer <= MaxNow))
    /\ (pc = "started") ~> exited

\* C16 witness: no collaborator ever responded and the global timer ended
\* the process.
C16_Witness ==
    /\ exited
    /\ exitCause = "testTimeout"
    /\ steam = "loggingOn"
    /\ printed \cap AbortLines = {}

\* The diagnosis lines the 'error' handler can print.
DiagnosisLines == {"Diagnosis: Invalid credentials", "Diagnosis: 2FA code mismatch",
                   "Diagnosis: 2FA required", "Diagnosis: Login rate limited",
                   "Diagnosis: Unknown error"}

\* The results completeTest is called with.
Results == {"SUCCESS", "NO_DATA", "TIMEOUT", "GC_TIMEOUT", "INTERRUPTED",
            "TERMINATED"}

\* C17: classifier totality.  Every exited run has exit code 0 or 1 and a
\* verdict: the result and report of completeTest when the exit came from
\* it, and otherwise the diagnosis line of the handler that exited (one of
\* the five error diagnoses, the disconnect lines, the 5-minute line).
C17_Totality ==
    exited =>
        /\ exitCode \in {0, 1}
        /\ exitCause \in DirectExits \cup {"completeTest", "generateAuthCode"}
        /\ exitCause = "completeTest" =>
              /\ result \in Results
              /\ report = ReportOf(result)
              /\ "TEST COMPLETED" \in printed
        /\ exitCause = "error" => printed \cap DiagnosisLines # {}
        /\ exitCause = "disconnected" => "Unexpected disconnection" \in printed
        /\ exitCause = "disconnectedFromGC" => "may indicate a soft ban" \in printed
        /\ exitCause = "testTimeout" => "TEST TIMEOUT AFTER 5 MINUTES" \in printed
        /\ exitCause = "generateAuthCode" => "Failed to generate 2FA code" \in printed

\* C17 witness: a Steam error with a result code the handler does not list
\* ended the run, during the profile request stage, with the catch-all diagnosis.
C17_Witness ==
    /\ exited
    /\ exitCause = "error"
    /\ requestPending
    /\ "Diagnosis: Unknown error" \in printed
    /\ exitCode = 1

\* C18 as stated: in the report printed by the finalizing step, 'Steam
\* Login' is shown as succeeded only if loggedOn was received, 'GC
\* Connection' if and only if connectedToGC was received, and 'Profile
\* Request' if and only if a non-empty profile was received.
C18_Original ==
    [][(~testCompleted /\ testCompleted') =>
          /\ report'.login => "Steam Login Successful" \in printed'
          /\ report'.gc <=> "GC Connection Successful" \in printed'
          /\ report'.profile <=> "Profile Request Successful" \in printed']_vars

====
